---- MODULE Spec2Model ----
(***************************************************************************)
(* The node-graph editor of nsim: EditorViewer (src/src/nodes.rs) driving  *)
(* an egui_snarl Snarl<EditorNode> graph store.                            *)
(*                                                                         *)
(* The viewer callbacks are translated from src/src/nodes.rs.  The graph   *)
(* store (Snarl) and the widget that turns pointer gestures into viewer    *)
(* calls belong to the egui_snarl crate; they are modelled from the        *)
(* contract of spec.md sections 4.1 and 4.2.                               *)
(***************************************************************************)
EXTENDS Integers, Sequences, FiniteSets, TLC

\* ------------------------------------------------------------------ bounds
\* Number of node identifiers the store can hand out at one time.
MaxNodes == 3
\* Largest bundle of pins dragged in one gesture.
MaxDrag == 2

NodeId == 0 .. (MaxNodes - 1)
NoNode == -1

\* Payload values; 0 stands for 0.0 and "" for String::new().
NumberValues == {0, 1}
StringValues == {"", "a"}

\* ------------------------------------------------------------- data model
\* enum EditorNode { Sink, Number(f64), String(String) }
Sink == [kind |-> "Sink"]
Number(v) == [kind |-> "Number", num |-> v]
String(s) == [kind |-> "String", str |-> s]
EditorNode == {Sink} \cup {Number(v) : v \in NumberValues}
                     \cup {String(s) : s \in StringValues}

\* Option::None of get_node; also the content of a vacant slot.
None == [kind |-> "None"]

OutPinId(n, o) == [node |-> n, output |-> o]
InPinId(n, i) == [node |-> n, input |-> i]
Wire(o, i) == [out_pin |-> o, in_pin |-> i]

\* ------------------------------------------------------------ graph store
\* Snarl::new(): no node, no wire.
Snarl_new == [nodes |-> [n \in NodeId |-> None], wires |-> {}]

get_node(g, n) == IF n \in NodeId THEN g.nodes[n] ELSE None

\* Identifiers insert_node may return: any identifier no current node has.
FreshIds(g) == {n \in NodeId : g.nodes[n] = None}

\* insert_node(pos, node), with the identifier id it returns.
insert_node(g, id, node) == [g EXCEPT !.nodes[id] = node]

\* remove_node(id): the node and every wire with an endpoint on it.
remove_node(g, id) ==
    [nodes |-> [g.nodes EXCEPT ![id] = None],
     wires |-> {w \in g.wires : w.out_pin.node # id /\ w.in_pin.node # id}]

\* Snarl::connect(from, to): adds the wire, nothing else.
snarl_connect(g, from, to) ==
    [g EXCEPT !.wires = @ \cup {Wire(from, to)}]

\* Snarl::disconnect(from, to): removes the exact wire if present.
disconnect(g, from, to) ==
    [g EXCEPT !.wires = @ \ {Wire(from, to)}]

\* Snarl::drop_inputs(pin): removes every wire into pin.
drop_inputs(g, pin) ==
    [g EXCEPT !.wires = {w \in @ : w.in_pin # pin}]

connections_into(g, pin) == {w \in g.wires : w.in_pin = pin}
connections_out_of(g, pin) == {w \in g.wires : w.out_pin = pin}

\* InPin / OutPin as the widget builds them from the store before a call.
in_pin(g, id) ==
    [id |-> id, remotes |-> {w.out_pin : w \in connections_into(g, id)}]
out_pin(g, id) ==
    [id |-> id, remotes |-> {w.in_pin : w \in connections_out_of(g, id)}]

\* ------------------------------------------------------------------ viewer
\* Variant of inputs: every node has one input pin.
inputs_every_node(node) == 1

\* fn inputs / fn outputs
inputs(node) == IF node.kind = "Sink" THEN 1 ELSE 0
outputs(node) == IF node.kind = "Sink" THEN 0 ELSE 1

\* Pin compatibility flags.
PIN_NUM == 1
PIN_STR == 2

\* Bitwise & and | on two-bit PinCompat values.
BitAnd(a, b) ==
    (IF a % 2 = 1 /\ b % 2 = 1 THEN 1 ELSE 0)
    + (IF a \div 2 = 1 /\ b \div 2 = 1 THEN 2 ELSE 0)
BitOr(a, b) ==
    (IF a % 2 = 1 \/ b % 2 = 1 THEN 1 ELSE 0)
    + (IF a \div 2 = 1 \/ b \div 2 = 1 THEN 2 ELSE 0)

PIN_SINK == BitOr(PIN_NUM, PIN_STR)

pin_out_compat(node) ==
    CASE node.kind = "Sink" -> 0
      [] node.kind = "Number" -> PIN_NUM
      [] node.kind = "String" -> PIN_STR

\* Variant of pin_in_compat: a Sink input accepts numbers only.
pin_in_compat_number_only(node) ==
    CASE node.kind = "Sink" -> PIN_NUM
      [] node.kind \in {"Number", "String"} -> 0

pin_in_compat(node) ==
    CASE node.kind = "Sink" -> PIN_SINK
      [] node.kind \in {"Number", "String"} -> 0

\* Variant of DisconnectRemotes: the loop over to.remotes is left out.
DisconnectRemotes_skipped(g, to) == g

\* The wires the loop `for &remote in &to.remotes` disconnects.
DisconnectRemotes(g, to) ==
    [g EXCEPT !.wires = @ \ {Wire(r, to.id) : r \in to.remotes}]

\* Variant of connect: an input that already has a wire keeps it.
connect_first_wins(from, to, g) ==
    LET a == get_node(g, from.id.node)
        b == get_node(g, to.id.node)
    IN  IF a = None \/ b = None \/ a.kind = "Sink"
          THEN [snarl |-> g, outcome |-> "panic"]
        ELSE IF b.kind = "Sink"
          THEN [snarl |-> IF to.remotes = {} THEN snarl_connect(g, from.id, to.id)
                                             ELSE g,
                outcome |-> "connected"]
        ELSE [snarl |-> g, outcome |-> "ignored"]

\* Variant of connect: an output keeps one wire only; its other wires are
\* disconnected too.
connect_single_output(from, to, g) ==
    LET a == get_node(g, from.id.node)
        b == get_node(g, to.id.node)
    IN  IF a = None \/ b = None \/ a.kind = "Sink"
          THEN [snarl |-> g, outcome |-> "panic"]
        ELSE IF b.kind = "Sink"
          THEN [snarl |-> snarl_connect(
                              [g EXCEPT !.wires = {w \in @ : w.in_pin # to.id
                                                              /\ w.out_pin # from.id}],
                              from.id, to.id),
                outcome |-> "connected"]
        ELSE [snarl |-> g, outcome |-> "ignored"]

\* Variant of connect: the arm for a Sink source is empty instead of
\* unreachable!.
connect_sink_ignored(from, to, g) ==
    LET a == get_node(g, from.id.node)
        b == get_node(g, to.id.node)
    IN  IF a = None \/ b = None
          THEN [snarl |-> g, outcome |-> "panic"]
        ELSE IF a.kind = "Sink"
          THEN [snarl |-> g, outcome |-> "ignored"]
        ELSE IF b.kind = "Sink"
          THEN [snarl |-> snarl_connect(DisconnectRemotes(g, to), from.id, to.id),
                outcome |-> "connected"]
        ELSE [snarl |-> g, outcome |-> "ignored"]

\* Variant of connect: the arm for a Number/String target connects too.
connect_any_target(from, to, g) ==
    LET a == get_node(g, from.id.node)
        b == get_node(g, to.id.node)
    IN  IF a = None \/ b = None \/ a.kind = "Sink"
          THEN [snarl |-> g, outcome |-> "panic"]
        ELSE [snarl |-> snarl_connect(DisconnectRemotes(g, to), from.id, to.id),
              outcome |-> "connected"]

\* EditorViewer::connect(from: &OutPin, to: &InPin, snarl).
\* snarl[..] panics on an absent node.
connect(from, to, g) ==
    LET a == get_node(g, from.id.node)
        b == get_node(g, to.id.node)
    IN  IF a = None \/ b = None
          THEN [snarl |-> g, outcome |-> "panic"]
        ELSE IF a.kind = "Sink"
          THEN [snarl |-> g, outcome |-> "panic"]
        ELSE IF b.kind = "Sink"
          THEN [snarl |-> snarl_connect(DisconnectRemotes(g, to),
                                        from.id, to.id),
                outcome |-> "connected"]
        ELSE [snarl |-> g, outcome |-> "ignored"]

\* Variant of all_src_types: the masks are intersected (&), not united.
RECURSIVE all_src_types_intersected(_, _, _)
all_src_types_intersected(g, src_pins, i) ==
    IF i = 0 THEN PIN_SINK
    ELSE BitAnd(all_src_types_intersected(g, src_pins, i - 1),
                pin_in_compat(get_node(g, src_pins[i].node)))

\* fold(0, |acc, pin| acc | pin_in_compat(get_node(pin.node).expect(..)))
RECURSIVE all_src_types(_, _, _)
all_src_types(g, src_pins, i) ==
    IF i = 0 THEN 0
    ELSE BitOr(all_src_types(g, src_pins, i - 1),
               pin_in_compat(get_node(g, src_pins[i].node)))

\* Variant of ConnectBundle: connect without drop_inputs.
RECURSIVE ConnectBundle_no_drop(_, _, _, _, _)
ConnectBundle_no_drop(g, dst_pin, src_pins, out_ty, i) ==
    IF i > Len(src_pins) THEN g
    ELSE LET src_pin == src_pins[i]
             src_ty == pin_in_compat(get_node(g, src_pin.node))
             g1 == IF BitAnd(src_ty, out_ty) # 0
                     THEN snarl_connect(g, dst_pin, src_pin)
                     ELSE g
         IN  ConnectBundle_no_drop(g1, dst_pin, src_pins, out_ty, i + 1)

\* `for src_pin in src_pins { if src_ty & out_ty != 0 { drop_inputs; connect } }`
\* applied to the pins i .. Len(src_pins), in order.
RECURSIVE ConnectBundle(_, _, _, _, _)
ConnectBundle(g, dst_pin, src_pins, out_ty, i) ==
    IF i > Len(src_pins) THEN g
    ELSE LET src_pin == src_pins[i]
             src_ty == pin_in_compat(get_node(g, src_pin.node))
             g1 == IF BitAnd(src_ty, out_ty) # 0
                     THEN snarl_connect(drop_inputs(g, src_pin), dst_pin, src_pin)
                     ELSE g
         IN  ConnectBundle(g1, dst_pin, src_pins, out_ty, i + 1)

\* dst_out_candidates, in the order the loop visits them.
dst_out_candidates ==
    << [name |-> "Number", node_template |-> Number(0), out_ty |-> PIN_NUM],
       [name |-> "String", node_template |-> String(""), out_ty |-> PIN_STR] >>

\* Variant of dropped_wire_from_out: the `src_pins.len() != 1` return is
\* left out, so the first dragged pin is used.
dropped_wire_from_out_no_len_check(click, id, src_pins, g) ==
    IF Len(src_pins) = 0
      THEN [snarl |-> g, outcome |-> "returned", close |-> FALSE]
    ELSE LET src_pin == src_pins[1]
             node == get_node(g, src_pin.node)
         IN  IF node = None
               THEN [snarl |-> g, outcome |-> "panic", close |-> FALSE]
             ELSE IF BitAnd(pin_out_compat(node), PIN_SINK) # 0 /\ click = "Sink"
               THEN [snarl |-> snarl_connect(insert_node(g, id, Sink),
                                             src_pin, InPinId(id, 0)),
                     outcome |-> "selected", close |-> TRUE]
             ELSE [snarl |-> g, outcome |-> "shown", close |-> FALSE]

\* Variant of dropped_wire_from_out: the new Sink is wired at input 1.
dropped_wire_from_out_input_1(click, id, src_pins, g) ==
    IF Len(src_pins) # 1
      THEN [snarl |-> g, outcome |-> "UnsupportedGesture", close |-> FALSE]
    ELSE LET src_pin == src_pins[1]
             node == get_node(g, src_pin.node)
         IN  IF node = None
               THEN [snarl |-> g, outcome |-> "panic", close |-> FALSE]
             ELSE IF BitAnd(pin_out_compat(node), PIN_SINK) # 0 /\ click = "Sink"
               THEN [snarl |-> snarl_connect(insert_node(g, id, Sink),
                                             src_pin, InPinId(id, 1)),
                     outcome |-> "selected", close |-> TRUE]
             ELSE [snarl |-> g, outcome |-> "shown", close |-> FALSE]

\* Variant of dropped_wire_from_out: the other wires of the dragged output
\* are dropped before the new one is made.
dropped_wire_from_out_drop_outputs(click, id, src_pins, g) ==
    IF Len(src_pins) # 1
      THEN [snarl |-> g, outcome |-> "UnsupportedGesture", close |-> FALSE]
    ELSE LET src_pin == src_pins[1]
             node == get_node(g, src_pin.node)
             g0 == [g EXCEPT !.wires = {w \in @ : w.out_pin # src_pin}]
         IN  IF node = None
               THEN [snarl |-> g, outcome |-> "panic", close |-> FALSE]
             ELSE IF BitAnd(pin_out_compat(node), PIN_SINK) # 0 /\ click = "Sink"
               THEN [snarl |-> snarl_connect(insert_node(g0, id, Sink),
                                             src_pin, InPinId(id, 0)),
                     outcome |-> "selected", close |-> TRUE]
             ELSE [snarl |-> g, outcome |-> "shown", close |-> FALSE]

\* AnyPins::Out arm of show_dropped_wire_menu.  click is the button the
\* pointer clicks this frame ("none" when it clicks none); id is the
\* identifier insert_node returns when it is called.
dropped_wire_from_out(click, id, src_pins, g) ==
    IF Len(src_pins) = 0
      THEN [snarl |-> g, outcome |-> "returned", close |-> FALSE]
    ELSE IF Len(src_pins) # 1
      THEN [snarl |-> g, outcome |-> "UnsupportedGesture", close |-> FALSE]
    ELSE LET src_pin == src_pins[1]
             node == get_node(g, src_pin.node)
         IN  IF node = None
               THEN [snarl |-> g, outcome |-> "panic", close |-> FALSE]
             ELSE IF BitAnd(pin_out_compat(node), PIN_SINK) # 0 /\ click = "Sink"
               THEN [snarl |-> snarl_connect(insert_node(g, id, Sink),
                                             src_pin, InPinId(id, 0)),
                     outcome |-> "selected", close |-> TRUE]
             ELSE [snarl |-> g, outcome |-> "shown", close |-> FALSE]

\* Variant of candidate_step: the node is inserted, the wiring loop left out.
candidate_step_no_wiring(click, id, src_pins, types, c, r) ==
    IF BitAnd(types, c.out_ty) # 0 /\ click = c.name
      THEN [snarl |-> insert_node(r.snarl, id, c.node_template),
            outcome |-> "selected", close |-> TRUE]
      ELSE r

\* One iteration of `for (name, node_template, out_ty) in dst_out_candidates`.
\* r is the result so far.
candidate_step(click, id, src_pins, types, c, r) ==
    IF BitAnd(types, c.out_ty) # 0 /\ click = c.name
      THEN [snarl |-> ConnectBundle(insert_node(r.snarl, id, c.node_template),
                                    OutPinId(id, 0), src_pins, c.out_ty, 1),
            outcome |-> "selected", close |-> TRUE]
      ELSE r

\* Variant of dropped_wire_from_in: the inputs of the dragged pins are
\* dropped as soon as the menu is drawn, before any button is clicked.
dropped_wire_from_in_eager_drop(click, id, src_pins, g) ==
    [snarl |-> [g EXCEPT !.wires =
                   {w \in @ : \A i \in 1 .. Len(src_pins) : w.in_pin # src_pins[i]}],
     outcome |-> "shown", close |-> FALSE]

\* AnyPins::In arm of show_dropped_wire_menu.
dropped_wire_from_in(click, id, src_pins, g) ==
    IF \E i \in 1 .. Len(src_pins) : get_node(g, src_pins[i].node) = None
      THEN [snarl |-> g, outcome |-> "panic", close |-> FALSE]
    ELSE LET types == all_src_types(g, src_pins, Len(src_pins))
             r0 == [snarl |-> g, outcome |-> "shown", close |-> FALSE]
             r1 == candidate_step(click, id, src_pins, types,
                                  dst_out_candidates[1], r0)
         IN  candidate_step(click, id, src_pins, types,
                            dst_out_candidates[2], r1)

\* EditorViewer::show_dropped_wire_menu(pos, ui, src_pins, snarl).
show_dropped_wire_menu(click, id, src, g) ==
    IF src.dir = "Out"
      THEN dropped_wire_from_out(click, id, src.pins, g)
      ELSE dropped_wire_from_in(click, id, src.pins, g)

\* Variant of show_graph_menu: the Number and String buttons are swapped.
show_graph_menu_swapped(click, id, g) ==
    CASE click = "Number" -> insert_node(g, id, String(""))
      [] click = "String" -> insert_node(g, id, Number(0))
      [] click = "Sink" -> insert_node(g, id, Sink)
      [] OTHER -> g

\* EditorViewer::show_graph_menu: the three "Add node" buttons.
show_graph_menu(click, id, g) ==
    CASE click = "Number" -> insert_node(g, id, Number(0))
      [] click = "String" -> insert_node(g, id, String(""))
      [] click = "Sink" -> insert_node(g, id, Sink)
      [] OTHER -> g

\* Variant of show_node_menu: Remove clears every wire of the graph.
show_node_menu_clears_wires(click, node, g) ==
    IF click = "Remove"
      THEN [nodes |-> [g.nodes EXCEPT ![node] = None], wires |-> {}]
      ELSE g

\* Variant of show_node_menu: Remove only drops the wires into the node.
show_node_menu_inputs_only(click, node, g) ==
    IF click = "Remove"
      THEN [nodes |-> [g.nodes EXCEPT ![node] = None],
            wires |-> {w \in g.wires : w.in_pin.node # node}]
      ELSE g

\* EditorViewer::show_node_menu: the "Remove" button.
show_node_menu(click, node, g) ==
    IF click = "Remove" THEN remove_node(g, node) ELSE g

\* EditorViewer::show_output: the DragValue / TextEdit writes value v into
\* the node that owns the pin.  A Sink has no output: unreachable!.
show_output(pin, v, g) ==
    LET node == get_node(g, pin.id.node)
    IN  CASE node.kind = "Number" ->
               [snarl |-> insert_node(g, pin.id.node, Number(v)), outcome |-> "edited"]
          [] node.kind = "String" ->
               [snarl |-> insert_node(g, pin.id.node, String(v)), outcome |-> "edited"]
          [] OTHER -> [snarl |-> g, outcome |-> "panic"]

\* EditorViewer::show_input: the label of an input pin.  A Sink with no remote
\* shows "None", with one remote the value of the remote's node; a Sink remote,
\* more than one remote, and an input pin on a Number or String node are
\* unreachable!.  The label is kept as the value shown, not as its text.
show_input(pin, g) ==
    LET node == get_node(g, pin.id.node)
    IN  IF node.kind = "Sink"
          THEN IF pin.remotes = {}
                 THEN [outcome |-> "shown", label |-> None]
               ELSE IF Cardinality(pin.remotes) = 1
                 THEN LET remote == CHOOSE r \in pin.remotes : TRUE
                          src == get_node(g, remote.node)
                      IN  IF src.kind \in {"Number", "String"}
                            THEN [outcome |-> "shown", label |-> src]
                            ELSE [outcome |-> "panic", label |-> None]
               ELSE [outcome |-> "panic", label |-> None]
          ELSE [outcome |-> "panic", label |-> None]

\* has_graph_menu / has_dropped_wire_menu / has_node_menu: always true.
has_graph_menu == TRUE
has_dropped_wire_menu == TRUE
has_node_menu == TRUE

\* ------------------------------------------------------------------- state
VARIABLES
    snarl,     \* TemplateApp.snarl: the graph, [nodes, wires]
    gesture,   \* the widget's wire gesture: [state, src, shown]
    last,      \* the callback that ran in the last frame, and its outcome
    pre,       \* the graph when the last viewer callback was entered
    drag0      \* the graph when the current (or last) wire drag began

vars == << snarl, gesture, last, pre, drag0 >>

NoPins == [dir |-> "None", pins |-> << >>]
Idle == [state |-> "Idle", src |-> NoPins, shown |-> FALSE]
NoOut == OutPinId(NoNode, 0)
NoIn == InPinId(NoNode, 0)

\* The pins the widget draws: inputs(node) input pins, outputs(node) output pins.
OutPins(g) ==
    {OutPinId(n, o) : n \in {m \in NodeId : g.nodes[m] # None /\ outputs(g.nodes[m]) > 0},
                      o \in {0}}
InPins(g) ==
    {InPinId(n, i) : n \in {m \in NodeId : g.nodes[m] # None /\ inputs(g.nodes[m]) > 0},
                     i \in {0}}

\* Bundles of 1 .. MaxDrag distinct pins out of P, in dragging order.
Bundles(P) ==
    {s \in UNION {[1 .. k -> P] : k \in 1 .. MaxDrag} :
        \A i, j \in DOMAIN s : i # j => s[i] # s[j]}

Op(op, outcome, click, node, from, to, src) ==
    [op |-> op, outcome |-> outcome, click |-> click, node |-> node,
     from |-> from, to |-> to, src |-> src]

Init ==
    /\ snarl = Snarl_new
    /\ gesture = Idle
    /\ last = Op("new", "ok", "none", NoNode, NoOut, NoIn, NoPins)
    /\ pre = Snarl_new
    /\ drag0 = Snarl_new

\* A panic ends the process.
Running == last.outcome # "panic"

\* Canvas context menu: one of the three buttons is clicked.
GraphMenu ==
    /\ Running /\ gesture.state = "Idle" /\ has_graph_menu
    /\ \E click \in {"Number", "String", "Sink"}, id \in FreshIds(snarl) :
         /\ snarl' = show_graph_menu(click, id, snarl)
         /\ last' = Op("graph_menu", "inserted", click, id, NoOut, NoIn, NoPins)
    /\ pre' = snarl
    /\ drag0' = snarl
    /\ UNCHANGED gesture

\* Node context menu: Remove is clicked.
NodeMenu ==
    /\ Running /\ gesture.state = "Idle" /\ has_node_menu
    /\ \E node \in NodeId :
         /\ snarl.nodes[node] # None
         /\ snarl' = show_node_menu("Remove", node, snarl)
         /\ last' = Op("node_menu", "removed", "Remove", node, NoOut, NoIn, NoPins)
    /\ pre' = snarl
    /\ drag0' = snarl
    /\ UNCHANGED gesture

\* The value widget of an output pin is edited.
EditValue ==
    /\ Running /\ gesture.state = "Idle"
    /\ \E pin \in OutPins(snarl) :
         \E v \in (IF snarl.nodes[pin.node].kind = "Number"
                     THEN NumberValues ELSE StringValues) :
            LET r == show_output(out_pin(snarl, pin), v, snarl)
            IN  /\ r.snarl # snarl
                /\ snarl' = r.snarl
                /\ last' = Op("show_output", r.outcome, "none", pin.node,
                              pin, NoIn, NoPins)
    /\ pre' = snarl
    /\ drag0' = snarl
    /\ UNCHANGED gesture

\* The value an output pin's widget holds when nothing is typed.
Shown(node) ==
    CASE node.kind = "Number" -> node.num
      [] node.kind = "String" -> node.str
      [] OTHER -> 0

\* A frame without input: the widget calls show_input for every input pin and
\* show_output for every output pin it draws.
Render ==
    /\ Running
    /\ LET ins == {show_input(in_pin(snarl, p), snarl).outcome : p \in InPins(snarl)}
           outs == {show_output(out_pin(snarl, p), Shown(get_node(snarl, p.node)),
                                snarl).outcome : p \in OutPins(snarl)}
       IN  last' = Op("render", IF "panic" \in ins \cup outs THEN "panic" ELSE "ok",
                      "none", NoNode, NoOut, NoIn, NoPins)
    /\ pre' = snarl
    /\ UNCHANGED << snarl, gesture, drag0 >>

\* A wire drag starts from a bundle of output pins or of input pins.
BeginDrag ==
    /\ Running /\ gesture.state = "Idle"
    /\ \E src \in {[dir |-> "Out", pins |-> s] : s \in Bundles(OutPins(snarl))}
             \cup {[dir |-> "In", pins |-> s] : s \in Bundles(InPins(snarl))} :
         /\ gesture' = [state |-> "WireDragging", src |-> src, shown |-> FALSE]
         /\ last' = Op("begin_drag", "ok", "none", NoNode, NoOut, NoIn, src)
    /\ pre' = snarl
    /\ drag0' = snarl
    /\ UNCHANGED snarl

\* The calls the widget makes when a dragged bundle is released over a pin:
\* connect(out_pin(o), in_pin(i)) for each pair, both pins re-read from the
\* store before each call.  r is the result of the calls made so far.
RECURSIVE ConnectEach(_, _, _)
ConnectEach(pairs, i, r) ==
    IF i > Len(pairs) \/ r.outcome = "panic" THEN r
    ELSE LET c == connect(out_pin(r.snarl, pairs[i][1]),
                          in_pin(r.snarl, pairs[i][2]), r.snarl)
         IN  ConnectEach(pairs, i + 1,
                         [snarl |-> c.snarl, outcome |-> c.outcome,
                          before |-> r.snarl,
                          from |-> pairs[i][1], to |-> pairs[i][2]])

\* The (output, input) pairs of a drag of src released over pin target.
DragPairs(src, target) ==
    [i \in 1 .. Len(src.pins) |->
        IF src.dir = "Out" THEN << src.pins[i], target >>
                           ELSE << target, src.pins[i] >>]

\* The drag is released over target: every pair goes through connect.
Release(target) ==
    LET r == ConnectEach(DragPairs(gesture.src, target), 1,
                         [snarl |-> snarl, outcome |-> "none", before |-> snarl,
                          from |-> NoOut, to |-> NoIn])
    IN  /\ snarl' = r.snarl
        /\ last' = Op("connect", r.outcome, "none", NoNode, r.from, r.to,
                      gesture.src)
        /\ pre' = r.before
        /\ gesture' = Idle
        /\ UNCHANGED drag0

\* The drag is released over a pin of the other direction.
ReleaseOnPin ==
    /\ Running /\ gesture.state = "WireDragging"
    /\ \E target \in (IF gesture.src.dir = "Out" THEN InPins(snarl)
                                                ELSE OutPins(snarl)) :
         Release(target)

\* The drag is released over empty canvas: the dropped-wire menu opens.
ReleaseOnCanvas ==
    /\ Running /\ gesture.state = "WireDragging" /\ has_dropped_wire_menu
    /\ gesture' = [gesture EXCEPT !.state = "MenuOpen"]
    /\ last' = Op("release_canvas", "ok", "none", NoNode, NoOut, NoIn, gesture.src)
    /\ pre' = snarl
    /\ UNCHANGED << snarl, drag0 >>

\* One frame of the open dropped-wire menu.  The pointer can click a button
\* only once a frame has drawn the menu.  A frame without a click calls
\* insert_node never; a click needs an identifier for insert_node to return.
DroppedWireMenu ==
    /\ Running /\ gesture.state = "MenuOpen"
    /\ \E click \in (IF gesture.shown THEN {"none", "Sink", "Number", "String"}
                                      ELSE {"none"}) :
         \E id \in (IF click = "none" THEN {NoNode} ELSE FreshIds(snarl)) :
            LET r == show_dropped_wire_menu(click, id, gesture.src, snarl)
            IN  /\ snarl' = r.snarl
                /\ gesture' = IF r.close THEN Idle
                                         ELSE [gesture EXCEPT !.shown = TRUE]
                /\ last' = Op("dropped_wire_menu", r.outcome, click,
                              IF r.outcome = "selected" THEN id ELSE NoNode,
                              NoOut, NoIn, gesture.src)
    /\ pre' = snarl
    /\ UNCHANGED drag0

\* The menu, drawn at least once, is dismissed without a selection.
DismissMenu ==
    /\ Running /\ gesture.state = "MenuOpen" /\ gesture.shown
    /\ gesture' = Idle
    /\ last' = Op("dismiss", "Cancelled", "none", NoNode, NoOut, NoIn, gesture.src)
    /\ pre' = snarl
    /\ UNCHANGED << snarl, drag0 >>

Next ==
    \/ GraphMenu
    \/ NodeMenu
    \/ EditValue
    \/ Render
    \/ BeginDrag
    \/ ReleaseOnPin
    \/ ReleaseOnCanvas
    \/ DroppedWireMenu
    \/ DismissMenu

Spec == Init /\ [][Next]_vars

\* ------------------------------------------------- callbacks called directly
\* connect and show_dropped_wire_menu are public trait methods: ApiSpec also
\* hands them pins of any existing node, whatever its variant.
AnyOutPins(g) == {OutPinId(n, 0) : n \in {m \in NodeId : g.nodes[m] # None}}
AnyInPins(g) == {InPinId(n, 0) : n \in {m \in NodeId : g.nodes[m] # None}}

\* The pin slices a caller can pass: the bundles, and the empty slice.
ApiBundles(P) == Bundles(P) \cup {<< >>}

ApiBeginDrag ==
    /\ Running /\ gesture.state = "Idle"
    /\ \E src \in {[dir |-> "Out", pins |-> s] : s \in ApiBundles(AnyOutPins(snarl))}
             \cup {[dir |-> "In", pins |-> s] : s \in ApiBundles(AnyInPins(snarl))} :
         /\ gesture' = [state |-> "WireDragging", src |-> src, shown |-> FALSE]
         /\ last' = Op("begin_drag", "ok", "none", NoNode, NoOut, NoIn, src)
    /\ pre' = snarl
    /\ drag0' = snarl
    /\ UNCHANGED snarl

ApiReleaseOnPin ==
    /\ Running /\ gesture.state = "WireDragging"
    /\ \E target \in (IF gesture.src.dir = "Out" THEN AnyInPins(snarl)
                                                ELSE AnyOutPins(snarl)) :
         Release(target)

ApiNext ==
    \/ GraphMenu
    \/ NodeMenu
    \/ ApiBeginDrag
    \/ ApiReleaseOnPin
    \/ ReleaseOnCanvas
    \/ DroppedWireMenu
    \/ DismissMenu

ApiSpec == Init /\ [][ApiNext]_vars

\* ------------------------------------------------------------ persistence
\* #[derive(Serialize)] on EditorNode: the variant name, then the payload.
serialize_node(node) ==
    CASE node.kind = "Sink" -> << "Sink" >>
      [] node.kind = "Number" -> << "Number", node.num >>
      [] node.kind = "String" -> << "String", node.str >>

\* Variant of deserialize_node: the payload is not read back.
deserialize_node_default_payload(text) ==
    CASE text[1] = "Sink" -> Sink
      [] text[1] = "Number" -> Number(0)
      [] text[1] = "String" -> String("")

\* #[derive(Deserialize)] on EditorNode.
deserialize_node(text) ==
    CASE text[1] = "Sink" -> Sink
      [] text[1] = "Number" -> Number(text[2])
      [] text[1] = "String" -> String(text[2])

\* Snarl<EditorNode> serialized: the node table keyed by identifier, and the
\* wires as (output node, output, input node, input).
serialize_snarl(g) ==
    [nodes |-> [n \in {m \in NodeId : g.nodes[m] # None} |->
                   serialize_node(g.nodes[n])],
     wires |-> {<< w.out_pin.node, w.out_pin.output,
                   w.in_pin.node, w.in_pin.input >> : w \in g.wires}]

deserialize_snarl(text) ==
    [nodes |-> [n \in NodeId |-> IF n \in DOMAIN text.nodes
                                   THEN deserialize_node(text.nodes[n])
                                   ELSE None],
     wires |-> {Wire(OutPinId(t[1], t[2]), InPinId(t[3], t[4])) : t \in text.wires}]

\* No value under APP_KEY (first run, or persistence not enabled).
NoStorage == [present |-> FALSE]

\* TemplateApp::save: set_value(storage, APP_KEY, self).
save(g) == [present |-> TRUE, snarl |-> serialize_snarl(g)]

\* TemplateApp::new: get_value(storage, APP_KEY).unwrap_or_default().
new(storage) ==
    IF storage.present THEN deserialize_snarl(storage.snarl)
                       ELSE Snarl_new

\* The application shuts down and starts again: save, then new on what was
\* saved, or on no value when nothing was persisted.
Restart ==
    /\ Running
    /\ \E persisted \in BOOLEAN :
         /\ snarl' = new(IF persisted THEN save(snarl) ELSE NoStorage)
         /\ last' = Op("restart", IF persisted THEN "restored" ELSE "default",
                       "none", NoNode, NoOut, NoIn, NoPins)
    /\ gesture' = Idle
    /\ pre' = snarl
    /\ drag0' = snarl

PersistNext ==
    \/ Next
    \/ Restart

PersistSpec == Init /\ [][PersistNext]_vars

\* ------------------------------------------------------- stale pins
\* StaleSpec adds what the widget is trusted never to do: a node is removed
\* while a wire gesture that holds one of its pins is pending, so that the
\* callbacks are handed a pin of a node that is no longer in the graph.
StaleRemove ==
    /\ Running /\ gesture.state \in {"WireDragging", "MenuOpen"}
    /\ \E i \in 1 .. Len(gesture.src.pins) :
         LET node == gesture.src.pins[i].node
         IN  /\ snarl.nodes[node] # None
             /\ snarl' = show_node_menu("Remove", node, snarl)
             /\ last' = Op("node_menu", "removed", "Remove", node, NoOut, NoIn,
                           gesture.src)
    /\ pre' = snarl
    /\ UNCHANGED << gesture, drag0 >>

StaleNext ==
    \/ ApiNext
    \/ StaleRemove

StaleSpec == Init /\ [][StaleNext]_vars

\* ------------------------------------------------------------------ claims

\* C1: in every reachable state of the editor, every input pin carries at
\* most one connection: two wires into the same input pin are the same wire.
C1_SingleInputConnection ==
    \A w1, w2 \in snarl.wires : w1.in_pin = w2.in_pin => w1 = w2

\* C1 witness: a connect has replaced the wire an input pin already had.
C1_Witness ==
    /\ last.op = "connect" /\ last.outcome = "connected"
    /\ connections_into(pre, last.to) # {}
    /\ connections_into(pre, last.to) # connections_into(snarl, last.to)
    /\ Cardinality(connections_into(snarl, last.to)) = 1

\* C2: last-write-wins.  After a successful connect to input pin p, the
\* connections into p are exactly the one wire from the output of that most
\* recent connect; whatever an earlier connect put there is gone.
C2_LastWriteWins ==
    (last.op = "connect" /\ last.outcome = "connected") =>
        connections_into(snarl, last.to) = {Wire(last.from, last.to)}

\* C2 witness: two outputs dragged as a bundle onto one input; both connects
\* succeeded, the first one's wire was there before the second, and is gone.
C2_Witness ==
    /\ last.op = "connect" /\ last.outcome = "connected"
    /\ last.src.dir = "Out" /\ Len(last.src.pins) = 2
    /\ last.from = last.src.pins[2]
    /\ Wire(last.src.pins[1], last.to) \in pre.wires
    /\ Wire(last.src.pins[1], last.to) \notin snarl.wires

\* C3: after Remove on node n, no wire has n as its output or input endpoint
\* and a lookup of n finds nothing.
C3_RemoveCascades ==
    last.op = "node_menu" =>
        /\ \A w \in snarl.wires :
              w.out_pin.node # last.node /\ w.in_pin.node # last.node
        /\ get_node(snarl, last.node) = None

\* C3 witness: the removed node was a source that fed a Sink.
C3_Witness ==
    /\ last.op = "node_menu"
    /\ get_node(pre, last.node) # None
    /\ \E w \in pre.wires : w.out_pin.node = last.node

\* The last callback was a connect of two pins whose masks do not intersect.
IncompatibleConnect ==
    /\ last.op = "connect"
    /\ get_node(pre, last.from.node) # None
    /\ get_node(pre, last.to.node) # None
    /\ BitAnd(pin_out_compat(get_node(pre, last.from.node)),
              pin_in_compat(get_node(pre, last.to.node))) = 0

InputMenuSelected ==
    /\ last.op = "dropped_wire_menu"
    /\ last.src.dir = "In"
    /\ last.outcome = "selected"

\* out_ty of the candidate whose button was clicked.
ChosenOutTy == IF last.click = "Number" THEN PIN_NUM ELSE PIN_STR

\* The dragged input pins whose mask intersects the chosen output's mask.
MatchingDragged ==
    {p \in {last.src.pins[i] : i \in 1 .. Len(last.src.pins)} :
        BitAnd(pin_in_compat(get_node(pre, p.node)), ChosenOutTy) # 0}

\* C5: a selection in the dropped-wire menu of a non-empty bundle of inputs
\* inserts exactly one node, of the chosen source kind; every matching
\* dragged input then has exactly one connection, from output 0 of the new
\* node; every other node, every wire into any other pin and every dragged
\* input that does not match are as before.
C5_InputMenuSelection ==
    InputMenuSelected =>
        /\ Len(last.src.pins) > 0
        /\ last.click \in {"Number", "String"}
        /\ get_node(pre, last.node) = None
        /\ get_node(snarl, last.node).kind = last.click
        /\ \A n \in NodeId : n # last.node => snarl.nodes[n] = pre.nodes[n]
        /\ \A p \in MatchingDragged :
              connections_into(snarl, p) = {Wire(OutPinId(last.node, 0), p)}
        /\ {w \in snarl.wires : w.in_pin \notin MatchingDragged}
              = {w \in pre.wires : w.in_pin \notin MatchingDragged}

\* C5 witness: a bundle of two inputs, one on a Sink that had a connection
\* (dropped and replaced), one on a node whose mask does not match (skipped).
C5_Witness ==
    /\ InputMenuSelected
    /\ Len(last.src.pins) = 2
    /\ \E p \in MatchingDragged : connections_into(pre, p) # {}
    /\ \E i \in 1 .. 2 : last.src.pins[i] \notin MatchingDragged

\* The last frame showed the dropped-wire menu of more than one output pin.
MultiOutputMenu ==
    /\ last.op = "dropped_wire_menu"
    /\ last.src.dir = "Out"
    /\ Len(last.src.pins) > 1

\* C6: the dropped-wire menu of more than one dragged output pin mutates
\* nothing (no node created, no connection added or removed), results in the
\* UnsupportedGesture message, and selects nothing even if the pointer clicks
\* where Sink would be.
C6_MultiOutputRejected ==
    MultiOutputMenu =>
        /\ snarl = pre
        /\ snarl = drag0
        /\ last.outcome = "UnsupportedGesture"
        /\ last.node = NoNode

\* C6 witness: the outputs of a Number and of a String dragged together, and
\* a click where the Sink button would be.
C6_Witness ==
    /\ MultiOutputMenu
    /\ last.click = "Sink"
    /\ last.outcome = "UnsupportedGesture"
    /\ get_node(snarl, last.src.pins[1].node).kind = "Number"
    /\ get_node(snarl, last.src.pins[2].node).kind = "String"

\* The last frame was a selection in a dropped-wire menu (either path).
MenuSelected ==
    /\ last.op = "dropped_wire_menu"
    /\ last.outcome = "selected"

\* C7: in the state a dropped-wire menu selection leaves behind, the node it
\* created exists and has a connection to a dragged pin.
C7_InsertThenConnectAtomic ==
    MenuSelected =>
        /\ get_node(snarl, last.node) # None
        /\ \E i \in 1 .. Len(last.src.pins) :
              IF last.src.dir = "Out"
                THEN Wire(last.src.pins[i], InPinId(last.node, 0)) \in snarl.wires
                ELSE Wire(OutPinId(last.node, 0), last.src.pins[i]) \in snarl.wires

\* C7 witness: a Sink created from a dragged output, in a graph that had
\* another Sink already.
C7_Witness ==
    /\ MenuSelected
    /\ last.src.dir = "Out"
    /\ get_node(snarl, last.node) = Sink
    /\ \E n \in NodeId : get_node(pre, n) = Sink

\* C8: a wire drag released over empty canvas whose menu is shown and then
\* dismissed ends in Idle with no pending pins, and the graph is the one of
\* the moment the drag began; the frames that only show the menu change
\* nothing either.
C8_CancelLeavesNothing ==
    /\ (last.op = "dismiss") => (gesture = Idle /\ snarl = drag0)
    /\ (last.op = "dropped_wire_menu" /\ last.outcome # "selected") =>
          snarl = drag0
    /\ (gesture.state = "Idle") => (gesture.src = NoPins)

\* C8 witness: a dismissed menu of a dragged input that has a connection.
C8_Witness ==
    /\ last.op = "dismiss"
    /\ last.src.dir = "In"
    /\ connections_into(snarl, last.src.pins[1]) # {}
    /\ gesture.state = "Idle"

\* The node a canvas-menu button inserts.
DefaultNode(click) ==
    CASE click = "Number" -> Number(0)
      [] click = "String" -> String("")
      [] click = "Sink" -> Sink

\* C9: a canvas-menu action inserts exactly one node, of the chosen variant
\* with the default payload; every existing node and the connection set are
\* unchanged, and the new node has no connection.
C9_CanvasMenuInsert ==
    last.op = "graph_menu" =>
        /\ get_node(pre, last.node) = None
        /\ snarl.nodes = [pre.nodes EXCEPT ![last.node] = DefaultNode(last.click)]
        /\ snarl.wires = pre.wires
        /\ \A w \in snarl.wires :
              w.out_pin.node # last.node /\ w.in_pin.node # last.node

\* C9 witness: a Number inserted into a graph that has a wire and a Number
\* whose value was edited.
C9_Witness ==
    /\ last.op = "graph_menu"
    /\ last.click = "Number"
    /\ pre.wires # {}
    /\ \E n \in NodeId : get_node(pre, n) = Number(1)

\* C11: every connection goes from output 0 of an existing Number or String
\* node to input 0 of an existing Sink; none starts at a Sink, ends at a
\* Number/String node or names a removed node.
C11_WiresWellFormed ==
    \A w \in snarl.wires :
        /\ w.out_pin.output = 0
        /\ w.in_pin.input = 0
        /\ get_node(snarl, w.out_pin.node).kind \in {"Number", "String"}
        /\ get_node(snarl, w.in_pin.node).kind = "Sink"

\* C11 witness: a node with a wire has just been removed and another wire,
\* made by a dropped-wire menu or a connect before, is still there.
C11_Witness ==
    /\ last.op = "node_menu"
    /\ \E w \in pre.wires : w.out_pin.node = last.node \/ w.in_pin.node = last.node
    /\ snarl.wires # {}

\* C12: Remove on node n changes nothing but n: every other node keeps its
\* variant and payload and the wires left are exactly those that did not
\* touch n; a Sink that n fed is still there, with no connection.
C12_RemoveFrame ==
    last.op = "node_menu" =>
        /\ \A m \in NodeId : m # last.node => snarl.nodes[m] = pre.nodes[m]
        /\ snarl.wires = {w \in pre.wires : w.out_pin.node # last.node
                                            /\ w.in_pin.node # last.node}
        /\ \A w \in pre.wires :
              w.out_pin.node = last.node =>
                 /\ get_node(snarl, w.in_pin.node) = Sink
                 /\ connections_into(snarl, w.in_pin) = {}

\* C12 witness: the removed node was a Number that fed a Sink; a String with
\* an edited payload stands beside them.
C12_Witness ==
    /\ last.op = "node_menu"
    /\ get_node(pre, last.node).kind = "Number"
    /\ \E w \in pre.wires : w.out_pin.node = last.node
    /\ \E m \in NodeId : get_node(snarl, m) = String("a")

\* C13: a successful connect of output o to input p removes only wires that
\* ended at p: the wires into every other input pin are the same as before.
C13_FanOutKept ==
    (last.op = "connect" /\ last.outcome = "connected") =>
        {w \in snarl.wires : w.in_pin # last.to}
            = {w \in pre.wires : w.in_pin # last.to}

\* C13 witness: the connected output already fed another input and feeds it
\* still: it now has two wires.
C13_Witness ==
    /\ last.op = "connect" /\ last.outcome = "connected"
    /\ \E w \in pre.wires : w.out_pin = last.from /\ w.in_pin # last.to
                            /\ w \in snarl.wires
    /\ Cardinality(connections_out_of(snarl, last.from)) = 2

\* The last callback was a connect whose source node is a Sink.
SinkSourceConnect ==
    /\ last.op = "connect"
    /\ last.outcome # "none"
    /\ get_node(pre, last.from.node) = Sink

\* The last callback was a dropped-wire menu one of whose dragged pins names
\* a node that is not in the graph.
StalePinMenu ==
    /\ last.op = "dropped_wire_menu"
    /\ \E i \in 1 .. Len(last.src.pins) :
          get_node(pre, last.src.pins[i].node) = None

C15_RoundTrip ==
    (last.op = "restart" /\ last.outcome = "restored") => snarl = pre

\* C15 witness: the restored graph has a Sink, a Number and a String, an
\* edited payload and a connection.
C15_Witness ==
    /\ last.op = "restart" /\ last.outcome = "restored"
    /\ \E n \in NodeId : get_node(pre, n) = Sink
    /\ \E n \in NodeId : get_node(pre, n) = Number(1)
    /\ \E n \in NodeId : get_node(pre, n).kind = "String"
    /\ pre.wires # {}

\* The last callback was a connect of an output pin and an input pin of two
\* nodes of the graph.
ConnectCall ==
    /\ last.op = "connect"
    /\ last.outcome # "none"
    /\ get_node(pre, last.from.node) # None
    /\ get_node(pre, last.to.node) # None

\* C16: connect(from, to) creates the connection if and only if
\* pin_out_compat of from's variant AND pin_in_compat of to's variant is not
\* zero, for every pair of variants.
C16_ConnectAgreesWithMask ==
    ConnectCall =>
        ((last.outcome = "connected" /\ Wire(last.from, last.to) \in snarl.wires)
            <=> BitAnd(pin_out_compat(get_node(pre, last.from.node)),
                       pin_in_compat(get_node(pre, last.to.node))) # 0)

\* C16 witness: a String output connected to a Sink input that had no wire.
C16_Witness ==
    /\ ConnectCall
    /\ get_node(pre, last.from.node).kind = "String"
    /\ get_node(pre, last.to.node) = Sink
    /\ connections_into(pre, last.to) = {}
    /\ Wire(last.from, last.to) \in snarl.wires

\* The last frame of the dropped-wire menu had a click on one of the three
\* button names.
MenuClick ==
    /\ last.op = "dropped_wire_menu"
    /\ last.click # "none"
    /\ last.outcome # "panic"

\* The union of the input masks of the dragged pins has bit ty.
UnionHas(ty) ==
    \E i \in 1 .. Len(last.src.pins) :
        BitAnd(pin_in_compat(get_node(pre, last.src.pins[i].node)), ty) # 0

\* The clicked entry is one the masks say is offered.
OfferedByMask ==
    IF last.src.dir = "In"
      THEN \/ last.click = "Number" /\ UnionHas(PIN_NUM)
           \/ last.click = "String" /\ UnionHas(PIN_STR)
      ELSE /\ Len(last.src.pins) = 1
           /\ last.click = "Sink"
           /\ BitAnd(pin_out_compat(get_node(pre, last.src.pins[1].node)),
                     pin_in_compat(Sink)) # 0

\* C17: a click selects an entry exactly when the masks offer it (Number or
\* String by the union of the dragged input masks, nothing for an empty
\* bundle, Sink for a single dragged output whose mask meets the Sink input
\* mask), and every connection a selection creates joins pins whose masks
\* intersect.
C17_MenuOfferedByMask ==
    MenuClick =>
        /\ (last.outcome = "selected") <=> OfferedByMask
        /\ \A w \in snarl.wires \ pre.wires :
              BitAnd(pin_out_compat(get_node(snarl, w.out_pin.node)),
                     pin_in_compat(get_node(snarl, w.in_pin.node))) # 0

\* C17 witness: Number clicked for a bundle of two inputs of which only one
\* has a mask that meets {NUMBER}; the entry was offered and selected.
C17_Witness ==
    /\ MenuClick
    /\ last.src.dir = "In" /\ Len(last.src.pins) = 2
    /\ last.click = "Number"
    /\ \E i \in 1 .. 2 : pin_in_compat(get_node(pre, last.src.pins[i].node)) = 0
    /\ last.outcome = "selected"
    /\ snarl.wires \ pre.wires # {}

\* The last frame was a selection in the menu of a dragged output.
OutputMenuSelected ==
    /\ last.op = "dropped_wire_menu"
    /\ last.src.dir = "Out"
    /\ last.outcome = "selected"

\* C18: a Sink selection for exactly one dragged output o of a Number or
\* String node inserts exactly one node, a Sink, and adds exactly one
\* connection, from o to input 0 of the new Sink; every node and connection
\* that existed, o's other connections included, is unchanged.
C18_OutputMenuSelection ==
    OutputMenuSelected =>
        /\ Len(last.src.pins) = 1
        /\ last.click = "Sink"
        /\ get_node(pre, last.src.pins[1].node).kind \in {"Number", "String"}
        /\ get_node(pre, last.node) = None
        /\ snarl.nodes = [pre.nodes EXCEPT ![last.node] = Sink]
        /\ Wire(last.src.pins[1], InPinId(last.node, 0)) \notin pre.wires
        /\ snarl.wires = pre.wires
                \cup {Wire(last.src.pins[1], InPinId(last.node, 0))}

\* C18 witness: the dragged output already fed a Sink and feeds two now.
C18_Witness ==
    /\ OutputMenuSelected
    /\ connections_out_of(pre, last.src.pins[1]) # {}
    /\ Cardinality(connections_out_of(snarl, last.src.pins[1])) = 2

\* C19: no panic branch of the viewer is reached: in every state reached
\* from the empty graph by editor operations, no frame's show_input,
\* show_output, connect or show_dropped_wire_menu has ended in unreachable!
\* or in a failed expect.
C19_NoPanic == last.outcome # "panic"

\* C19 witness: a frame rendered a Sink whose input has a connection while a
\* wire was being dragged, and nothing panicked.
C19_Witness ==
    /\ last.op = "render" /\ last.outcome = "ok"
    /\ gesture.state = "WireDragging"
    /\ \E p \in InPins(snarl) : Cardinality(in_pin(snarl, p).remotes) = 1

====
